---- MODULE Spec2Model ----
(***************************************************************************)
(* Model of slpt.py: process_files / process_one_file / process_line.      *)
(*                                                                         *)
(* Text is a sequence of symbols.  A symbol is either the separator "/",   *)
(* the line terminator "\n", the undecodable byte BAD, or a chunk of text  *)
(* holding neither a "/" nor a terminator ("channel", "x", "42", ...).     *)
(* A field equals the literal 'channel' exactly when it is the one-chunk   *)
(* sequence <<"channel">>.                                                 *)
(***************************************************************************)
EXTENDS Naturals, Sequences, FiniteSets

VARIABLES
    inDir,          \* input directory: name -> [kind, data]
    outKind,        \* what is at output_path: "absent" | "dir" | "file"
    outDir,         \* children of output_path: name -> [kind, data]
    parentWritable, \* whether a directory can be created at output_path
    overwrite,      \* the overwrite argument
    readAhead,      \* whether the decoder reads a whole input file at the first read
    pc,             \* position in process_files / process_one_file
    files,          \* list(input_path.glob(mask))
    i,              \* number of loop iterations started (line 59)
    stream_in,      \* unread text of the open input file
    escaped,        \* exception that left process_files, or "none"
    calls,          \* history: fn of every process_one_file call, in order
    outcome,        \* history: how every finished call ended ("ok" or exception)
    last,           \* history: the last line handled by the loop of line 79
    raced,          \* history: pc at which another process created output_path
    run,            \* 1 or 2: which of the two consecutive runs this is
    start           \* history: the output tree when the run started / after run 1

vars == <<inDir, outKind, outDir, parentWritable, overwrite, readAhead, pc, files, i,
          stream_in, escaped, calls, outcome, last, raced, run, start>>

----------------------------------------------------------------------------
(* Bounds *)

\* total number of lines over all input files of the pipeline specification
MaxLines == 2
\* longest line (symbols before the terminator) of the line specification
MaxLineLen == 8

----------------------------------------------------------------------------
(* Text *)

SLASH == "/"
NL == "\n"
BAD == "<0xff>"
CHANNEL == <<"channel">>

\* line 95: the slice [4:6]
SliceFrom == 4
SliceTo == 6

Min(a, b) == IF a < b THEN a ELSE b

\* str.split('/'): always at least one field
RECURSIVE split(_)
split(s) ==
    IF s = <<>> THEN << <<>> >>
    ELSE LET rest == split(Tail(s)) IN
         IF Head(s) = SLASH THEN << <<>> >> \o rest
         ELSE << <<Head(s)>> \o Head(rest) >> \o Tail(rest)

\* list[lo:hi] for 0 <= lo <= hi
slice(l, lo, hi) == SubSeq(l, lo + 1, Min(hi, Len(l)))

\* '/'.join(words)
RECURSIVE join(_)
join(words) ==
    IF words = <<>> THEN <<>>
    ELSE IF Len(words) = 1 THEN Head(words)
    ELSE Head(words) \o <<SLASH>> \o join(Tail(words))

Returned(v) == [exc |-> "none", value |-> v]
Raised(e) == [exc |-> e, value |-> <<>>]

process_line_NoChannelAssert(line) ==
    LET words == slice(split(line), SliceFrom, SliceTo) IN
    IF words = <<>> THEN Raised("AssertionError")
    ELSE Returned(join(words) \o <<NL>>)

process_line_Shifted(line) ==
    LET words == slice(split(line), SliceFrom + 1, SliceTo + 1) IN
    IF words = <<>> THEN Raised("AssertionError")
    ELSE IF words[1] # CHANNEL THEN Raised("AssertionError")
    ELSE Returned(join(words) \o <<NL>>)

process_line(line) ==
    LET words == slice(split(line), SliceFrom, SliceTo) IN
    IF words = <<>> THEN Raised("AssertionError")
    ELSE IF words[1] # CHANNEL THEN Raised("AssertionError")
    ELSE Returned(join(words) \o <<NL>>)

\* `for line in stream_in`: the next line, terminator included.  The text
\* layer decodes the file in chunks: an undecodable byte raises
\* UnicodeDecodeError when its chunk is read, which is at the first read for a
\* file of one chunk (readAhead) and at its own line at the latest.
RECURSIVE readline(_)
readline(s) ==
    IF s = <<>> THEN <<>>
    ELSE IF Head(s) = NL THEN <<NL>>
    ELSE <<Head(s)>> \o readline(Tail(s))

Drop(s, n) == SubSeq(s, n + 1, Len(s))

InSeq(x, s) == \E k \in 1..Len(s) : s[k] = x

----------------------------------------------------------------------------
(* Exception classes *)

\* lines 11-32, and the built-in classes above them
Parent(c) ==
    CASE c = "AbstractProcessFilesError" -> "Exception"
      [] c = "SkipLineError" -> "AbstractProcessFilesError"
      [] c = "WrongDestinationPath" -> "AbstractProcessFilesError"
      [] c = "CantCreateDestFolder" -> "WrongDestinationPath"
      [] c = "CantCreateDestFile" -> "WrongDestinationPath"
      [] c = "OutputFileAlreadyExists" -> "AbstractProcessFilesError"
      [] c = "AssertionError" -> "Exception"
      [] c = "IsADirectoryError" -> "OSError"
      [] c = "PermissionError" -> "OSError"
      [] c = "OSError" -> "Exception"
      [] c = "UnicodeDecodeError" -> "Exception"
      [] c = "Exception" -> "BaseException"
      [] OTHER -> "object"

RECURSIVE IsInstance(_, _)
IsInstance(e, c) ==
    IF e = c THEN TRUE
    ELSE IF e = "object" THEN FALSE
    ELSE IsInstance(Parent(e), c)

CaughtInLoop_FatalDest(e) ==
    /\ ~IsInstance(e, "WrongDestinationPath")
    /\ IsInstance(e, "AbstractProcessFilesError") \/ IsInstance(e, "Exception")

CaughtInLoop_OwnOnly(e) == IsInstance(e, "AbstractProcessFilesError")

\* lines 62-65: the two except clauses of the per-file loop
CaughtInLoop(e) ==
    IsInstance(e, "AbstractProcessFilesError") \/ IsInstance(e, "Exception")

CaughtInLine_SkipOnly(e) == IsInstance(e, "SkipLineError")

\* lines 84-87: the two except clauses of the per-line loop
CaughtInLine(e) ==
    \/ IsInstance(e, "SkipLineError") \/ IsInstance(e, "AssertionError")
    \/ IsInstance(e, "Exception")

----------------------------------------------------------------------------
(* The filesystem *)

TxtNames == {"a.txt", "b.txt"}
OtherNames == {"c.md"}
AllNames == TxtNames \cup OtherNames

\* line 43: input_files_mask='*.txt'
fnmatch(name) == name \in TxtNames

Absent == [kind |-> "absent", data |-> <<>>]
Dir == [kind |-> "dir", data |-> <<>>]
File(d) == [kind |-> "file", data |-> d]
\* a regular file that cannot be opened for writing
ReadOnlyFile(d) == [kind |-> "rofile", data |-> d]

\* Path.exists(), Path.is_file()
exists(kind) == kind # "absent"
is_file(kind) == kind \in {"file", "rofile"}

L44_is_dir_Missing(kind) == TRUE

\* line 44: output_path.is_dir()
L44_is_dir(kind) == kind = "dir"

mkdir_AnyExisting(kind, writable) ==
    IF kind # "absent" THEN "exists"
    ELSE IF writable THEN "created" ELSE "error"

\* line 53: output_path.mkdir(exist_ok=True)
mkdir(kind, writable) ==
    IF kind = "dir" THEN "exists"
    ELSE IF kind # "absent" THEN "error"
    ELSE IF writable THEN "created" ELSE "error"

DestCheck_IgnoreOverwrite(entry, ow) ==
    IF exists(entry.kind) /\ ~is_file(entry.kind) THEN "CantCreateDestFile"
    ELSE "none"

\* lines 72-76: the exception process_one_file raises for its destination
DestCheck(entry, ow) ==
    IF exists(entry.kind) /\ ~ow THEN "OutputFileAlreadyExists"
    ELSE IF exists(entry.kind) /\ ~is_file(entry.kind) THEN "CantCreateDestFile"
    ELSE "none"

WriteOpen_Append(entry) ==
    File(IF entry.kind = "file" THEN entry.data ELSE <<>>)

\* line 78: result_file_name.open('w') creates the file or truncates it
WriteOpen(entry) == File(<<>>)

----------------------------------------------------------------------------
(* Inputs *)

ScenarioLine1 == <<"/", "x", "/", "y", "/", "z", "/", "w", "/", "channel", "/", "42", "\n">>
ScenarioLine2 == <<"/", "too", "/", "short", "\n">>
GoodLine == <<"a", "/", "b", "/", "c", "/", "d", "/", "channel", "/", "42", "\n">>
BadLine == <<BAD, "\n">>
SampleLines == {ScenarioLine1, ScenarioLine2, GoodLine, BadLine}
Scenario == ScenarioLine1 \o ScenarioLine2
OldData == <<"old", "\n">>

SeqsUpTo(S, n) == UNION {[1..k -> S] : k \in 0..n}

RECURSIVE Concat(_)
Concat(ls) == IF ls = <<>> THEN <<>> ELSE Head(ls) \o Concat(Tail(ls))

RECURSIVE NumLines(_)
NumLines(d) ==
    IF d = <<>> THEN 0 ELSE LET l == readline(d) IN 1 + NumLines(Drop(d, Len(l)))

InEntries == {Absent, Dir} \cup {File(Concat(ls)) : ls \in SeqsUpTo(SampleLines, MaxLines)}
OutEntries == {Absent, Dir, File(OldData), ReadOnlyFile(OldData)}

LineAlphabet == {SLASH, "channel", "x"}
AllLines ==
    {b \o t : b \in SeqsUpTo(LineAlphabet, MaxLineLen), t \in {<<>>, <<NL>>}} \ {<<>>}

Orders(S) ==
    {o \in [1..Cardinality(S) -> S] : \A j, k \in 1..Cardinality(S) : o[j] = o[k] => j = k}

NoLast == [line |-> <<>>, exc |-> "none", before |-> <<>>, after |-> <<>>, next |-> "L79"]

----------------------------------------------------------------------------
(* Initial states *)

Init ==
    /\ inDir \in [AllNames -> InEntries]
    /\ inDir["c.md"] \in {Absent, File(GoodLine)}
    /\ NumLines(inDir["a.txt"].data) + NumLines(inDir["b.txt"].data) <= MaxLines
    /\ outKind \in {"absent", "dir", "file"}
    /\ outDir \in [TxtNames -> OutEntries]
    /\ outKind # "dir" => \A n \in TxtNames : outDir[n] = Absent
    /\ parentWritable \in BOOLEAN
    /\ outKind # "absent" => parentWritable
    /\ overwrite \in BOOLEAN
    /\ readAhead \in BOOLEAN
    /\ (\A n \in AllNames : ~InSeq(BAD, inDir[n].data)) => readAhead
    /\ pc = "L44a"
    /\ files = <<>>
    /\ i = 0
    /\ stream_in = <<>>
    /\ escaped = "none"
    /\ calls = <<>>
    /\ outcome = <<>>
    /\ last = NoLast
    /\ raced = "no"
    /\ run = 1
    /\ start = [kind |-> outKind, dir |-> outDir, raced |-> "no"]

\* process_one_file about to be called on a one-line file, overwrite enabled
InitLine ==
    /\ \E line \in AllLines :
         inDir = [n \in AllNames |-> IF n = "a.txt" THEN File(line) ELSE Absent]
    /\ outKind = "dir"
    /\ outDir = [n \in TxtNames |-> Absent]
    /\ parentWritable = TRUE
    /\ overwrite = TRUE
    /\ readAhead = TRUE
    /\ pc = "L59"
    /\ files = <<"a.txt">>
    /\ i = 0
    /\ stream_in = <<>>
    /\ escaped = "none"
    /\ calls = <<>>
    /\ outcome = <<>>
    /\ last = NoLast
    /\ raced = "no"
    /\ run = 1
    /\ start = [kind |-> outKind, dir |-> outDir, raced |-> "no"]

----------------------------------------------------------------------------
(* process_files: output preparation, lines 44-55 *)

fn == files[i]

\* an exception leaves process_files (main logs it, line 112)
Escape(e) ==
    /\ pc' = "raised"
    /\ escaped' = e

\* line 44, left operand: output_path.exists()
L44_exists ==
    /\ pc = "L44a"
    /\ pc' = IF exists(outKind) THEN "L44b" ELSE "L46"
    /\ UNCHANGED <<inDir, outKind, outDir, parentWritable, overwrite, readAhead, files, i,
                   stream_in, escaped, calls, outcome, last, raced, run, start>>

\* line 44, right operand: output_path.is_dir()
L44_and_is_dir ==
    /\ pc = "L44b"
    /\ pc' = IF L44_is_dir(outKind) THEN "L57" ELSE "L46"
    /\ UNCHANGED <<inDir, outKind, outDir, parentWritable, overwrite, readAhead, files, i,
                   stream_in, escaped, calls, outcome, last, raced, run, start>>

\* lines 46-49: elif output_path.exists(): raise WrongDestinationPath
L46_elif_exists ==
    /\ pc = "L46"
    /\ IF exists(outKind)
       THEN Escape("WrongDestinationPath")
       ELSE pc' = "L53" /\ UNCHANGED escaped
    /\ UNCHANGED <<inDir, outKind, outDir, parentWritable, overwrite, readAhead, files, i,
                   stream_in, calls, outcome, last, raced, run, start>>

\* lines 52-55: mkdir, any exception becomes CantCreateDestFolder
L53_mkdir ==
    /\ pc = "L53"
    /\ IF mkdir(outKind, parentWritable) = "error"
       THEN Escape("CantCreateDestFolder") /\ UNCHANGED outKind
       ELSE /\ pc' = "L57"
            /\ outKind' = IF mkdir(outKind, parentWritable) = "created"
                           THEN "dir" ELSE outKind
            /\ UNCHANGED escaped
    /\ UNCHANGED <<inDir, outDir, parentWritable, overwrite, readAhead, files, i,
                   stream_in, calls, outcome, last, raced, run, start>>

\* another process creates a directory or a file at output_path after the
\* exists() of line 44 found none
EnvCreate ==
    /\ pc \in {"L46", "L53"}
    /\ outKind = "absent"
    /\ \E k \in {"dir", "file"} : outKind' = k
    /\ raced' = pc
    /\ UNCHANGED <<inDir, outDir, parentWritable, overwrite, readAhead, pc, files, i,
                   stream_in, escaped, calls, outcome, last, run, start>>

----------------------------------------------------------------------------
(* process_files: enumeration and the per-file loop, lines 57-65 *)

\* line 57: glob gives the matching names in an order of the directory's choosing
L57_glob ==
    /\ pc = "L57"
    /\ \E o \in Orders({n \in AllNames : fnmatch(n) /\ exists(inDir[n].kind)}) :
         files' = o
    /\ pc' = "L59"
    /\ UNCHANGED <<inDir, outKind, outDir, parentWritable, overwrite, readAhead, i,
                   stream_in, escaped, calls, outcome, last, raced, run, start>>

\* lines 59-61: next fn, call process_one_file; or the loop ends
L59_for ==
    /\ pc = "L59"
    /\ IF i < Len(files)
       THEN /\ i' = i + 1
            /\ calls' = Append(calls, files[i + 1])
            /\ last' = NoLast
            /\ pc' = "L72"
       ELSE /\ pc' = "done"
            /\ UNCHANGED <<i, calls, last>>
    /\ UNCHANGED <<inDir, outKind, outDir, parentWritable, overwrite, readAhead, files,
                   stream_in, escaped, outcome, raced, run, start>>

\* exception e leaves process_one_file (the with statement closes both files)
\* and meets the except clauses of lines 62-65
FileRaised(e) ==
    /\ outcome' = Append(outcome, e)
    /\ stream_in' = <<>>
    /\ IF CaughtInLoop(e)
       THEN pc' = "L59" /\ UNCHANGED escaped
       ELSE Escape(e)

----------------------------------------------------------------------------
(* process_one_file, lines 68-87 *)

\* lines 69-76
L72_dest ==
    /\ pc = "L72"
    /\ LET e == DestCheck(outDir[fn], overwrite) IN
       IF e # "none" THEN FileRaised(e)
       ELSE pc' = "L78" /\ UNCHANGED <<outcome, stream_in, escaped>>
    /\ UNCHANGED <<inDir, outKind, outDir, parentWritable, overwrite, readAhead, files, i,
                   calls, last, raced, run, start>>

\* line 78: fn.open(), then result_file_name.open('w')
L78_with ==
    /\ pc = "L78"
    /\ IF inDir[fn].kind # "file"
       THEN FileRaised("IsADirectoryError") /\ UNCHANGED outDir
       ELSE IF outDir[fn].kind = "rofile"
       THEN FileRaised("PermissionError") /\ UNCHANGED outDir
       ELSE /\ stream_in' = inDir[fn].data
            /\ outDir' = [outDir EXCEPT ![fn] = WriteOpen(@)]
            /\ pc' = "L79"
            /\ UNCHANGED <<outcome, escaped>>
    /\ UNCHANGED <<inDir, outKind, parentWritable, overwrite, readAhead, files, i,
                   calls, last, raced, run, start>>

\* lines 79-87: one iteration of `for line in stream_in`, or its end
L79_for ==
    /\ pc = "L79"
    /\ IF stream_in = <<>>
       THEN /\ outcome' = Append(outcome, "ok")
            /\ pc' = "L59"
            /\ UNCHANGED <<stream_in, outDir, last, escaped>>
       ELSE LET line == readline(stream_in)
                rest == Drop(stream_in, Len(line))
                r == process_line(line)
                old == outDir[fn].data
                new == IF r.exc = "none" THEN old \o r.value ELSE old
            IN
            IF InSeq(BAD, IF readAhead THEN stream_in ELSE line)
            THEN FileRaised("UnicodeDecodeError") /\ UNCHANGED <<outDir, last>>
            ELSE /\ outDir' = [outDir EXCEPT ![fn].data = new]
                 /\ IF r.exc = "none" \/ CaughtInLine(r.exc)
                    THEN /\ stream_in' = rest
                         /\ pc' = "L79"
                         /\ UNCHANGED <<outcome, escaped>>
                    ELSE FileRaised(r.exc)
                 /\ last' = [line |-> line, exc |-> r.exc, before |-> old,
                             after |-> new, next |-> pc']
    /\ UNCHANGED <<inDir, outKind, parentWritable, overwrite, readAhead, files, i,
                   calls, raced, run, start>>

----------------------------------------------------------------------------
(* The second of two consecutive runs on the same input *)

Restart ==
    /\ pc \in {"done", "raised"}
    /\ run = 1
    /\ run' = 2
    /\ start' = [kind |-> outKind, dir |-> outDir, raced |-> raced]
    /\ pc' = "L44a"
    /\ files' = <<>>
    /\ i' = 0
    /\ escaped' = "none"
    /\ calls' = <<>>
    /\ outcome' = <<>>
    /\ last' = NoLast
    /\ raced' = "no"
    /\ UNCHANGED <<inDir, outKind, outDir, parentWritable, overwrite, readAhead, stream_in>>

----------------------------------------------------------------------------
(* Specifications *)

Next ==
    \/ L44_exists
    \/ L44_and_is_dir
    \/ L46_elif_exists
    \/ L53_mkdir
    \/ EnvCreate
    \/ L57_glob
    \/ L59_for
    \/ L72_dest
    \/ L78_with
    \/ L79_for
    \/ Restart

Spec == Init /\ [][Next]_vars

NextLine ==
    \/ L59_for
    \/ L72_dest
    \/ L78_with
    \/ L79_for

SpecLine == InitLine /\ [][NextLine]_vars

----------------------------------------------------------------------------
(* Properties *)

StripNL(f) ==
    IF f # <<>> /\ f[Len(f)] = NL THEN SubSeq(f, 1, Len(f) - 1) ELSE f

\* fewer than 5 fields, or field 4 is not exactly 'channel'
SkipCase(line) ==
    LET f == split(line) IN Len(f) < 5 \/ f[5] # CHANNEL

\* the results of the non-failing lines of data, in input order
RECURSIVE Expected(_)
Expected(data) ==
    IF data = <<>> THEN <<>>
    ELSE LET l == readline(data)
             r == process_line(l)
         IN (IF r.exc = "none" THEN r.value ELSE <<>>) \o Expected(Drop(data, Len(l)))

PrepPcs == {"L44a", "L44b", "L46", "L53"}

\* C1: a line whose fields are [a, b, c, d, 'channel', X, ...] is returned as
\* "channel/X\n" with one trailing newline, also when X is the last field and
\* carries the line terminator.
C1_Claim ==
    LET f == split(last.line) IN
    (last.line # <<>> /\ Len(f) >= 6 /\ f[5] = CHANNEL) =>
        /\ last.exc = "none"
        /\ last.after = last.before \o CHANNEL \o <<SLASH>> \o StripNL(f[6]) \o <<NL>>

\* C2: on a line with fewer than 5 fields, or whose field 4 is not exactly
\* 'channel', process_line raises, process_one_file writes nothing for the line
\* and goes on with the loop; a file of that one line gives an empty output.
C2_Thm ==
    (last.line # <<>> /\ SkipCase(last.line)) =>
        /\ last.exc \in {"AssertionError", "SkipLineError"}
        /\ last.after = last.before
        /\ last.next = "L79"
        /\ pc = "done" => outcome = <<"ok">> /\ outDir["a.txt"] = File(<<>>)

C2_Wit ==
    /\ pc = "done"
    /\ Len(split(last.line)) >= 6
    /\ split(last.line)[5] = <<"channel", "x">>
    /\ last.exc = "AssertionError"
    /\ outDir["a.txt"] = File(<<>>)

ScenarioRun ==
    /\ inDir["a.txt"] = File(Scenario)
    /\ inDir["b.txt"] = Absent
    /\ pc = "done"
    /\ outcome = <<"ok">>

\* C3 as stated: a.txt with the lines "/x/y/z/w/channel/42\n" and "/too/short\n"
\* as the only matching file leaves result/a.txt holding exactly "channel/42\n".
C3_Orig ==
    ScenarioRun => outDir["a.txt"] = File(<<"channel", "/", "42", "\n">>)

\* C3 amended: that run leaves result/a.txt existing and empty: field 4 of the
\* first line is 'w', so both lines are dropped.
C3_Thm ==
    ScenarioRun => outDir["a.txt"] = File(<<>>)

C3_Wit ==
    /\ ScenarioRun
    /\ run = 1
    /\ start.dir["a.txt"] = File(OldData)
    /\ outDir["a.txt"] = File(<<>>)

\* C4: with overwrite disabled, a destination that exists when the run starts
\* makes process_one_file raise OutputFileAlreadyExists, keeps its content in
\* every state of the run, and the other discovered files are still processed.
C4_Thm ==
    ~overwrite =>
        /\ \A n \in TxtNames : exists(start.dir[n].kind) => outDir[n] = start.dir[n]
        /\ \A k \in 1..Len(outcome) :
             exists(start.dir[calls[k]].kind) => outcome[k] = "OutputFileAlreadyExists"
        /\ pc = "done" => calls = files /\ Len(outcome) = Len(files)
        /\ pc = "raised" => calls = <<>>

C4_Wit ==
    /\ ~overwrite
    /\ pc = "done"
    /\ outcome = <<"OutputFileAlreadyExists", "ok">>
    /\ start.dir[calls[1]] = File(OldData)
    /\ outDir[calls[1]] = File(OldData)
    /\ outDir[calls[2]].kind = "file"
    /\ outDir[calls[2]].data # OldData

\* C5: when output_path is a non-directory at the start of process_files, the
\* run raises WrongDestinationPath before enumerating: no process_one_file
\* call, no file opened, no output created or modified.
C5_Thm ==
    start.kind = "file" =>
        /\ pc \in {"L44a", "L44b", "L46", "raised"}
        /\ pc = "raised" => escaped = "WrongDestinationPath"
        /\ files = <<>>
        /\ calls = <<>>
        /\ stream_in = <<>>
        /\ outKind = "file"
        /\ outDir = start.dir

C5_Wit ==
    /\ start.kind = "file"
    /\ run = 1
    /\ pc = "raised"
    /\ escaped = "WrongDestinationPath"
    /\ \A n \in TxtNames : inDir[n].kind = "file"

\* C6: once preparation and enumeration succeeded, process_one_file is called
\* exactly once per enumerated path, in enumeration order, whatever earlier
\* calls raised; no failure of a call leaves process_files.
C6_Thm ==
    /\ calls = SubSeq(files, 1, i)
    /\ pc = "done" => calls = files /\ Len(outcome) = Len(files)
    /\ pc = "raised" => calls = <<>> /\ outcome = <<>>
    /\ pc \notin PrepPcs \cup {"L57", "raised"} =>
         \A j, k \in 1..Len(files) : files[j] = files[k] => j = k

C6_Wit ==
    /\ pc = "done"
    /\ Len(files) = 2
    /\ calls = files
    /\ outcome = <<"IsADirectoryError", "ok">>

\* C7: two consecutive runs with overwrite enabled on the same input, with no
\* other process interfering, leave the same output files with the same
\* contents after the second run as after the first.
C7_Thm ==
    (run = 2 /\ pc \in {"done", "raised"} /\ overwrite
       /\ raced = "no" /\ start.raced = "no") =>
        /\ outKind = start.kind
        /\ outDir = start.dir

C7_Wit ==
    /\ run = 2
    /\ pc = "done"
    /\ overwrite
    /\ raced = "no" /\ start.raced = "no"
    /\ outcome = <<"ok", "ok">>
    /\ \A n \in TxtNames : outDir[n].data # <<>> /\ outDir[n] = start.dir[n]

\* C8 as stated: when preparation completes, output_path is a directory; and
\* when another process creates something there between the exists() check and
\* the mkdir call, the step succeeds with a directory in place or raises
\* CantCreateDestFolder.
C8_Orig ==
    /\ pc = "L57" => outKind = "dir"
    /\ (raced # "no" /\ pc \notin PrepPcs) =>
         IF pc = "raised" THEN escaped = "CantCreateDestFolder" ELSE outKind = "dir"

\* C8 amended: when preparation completes, output_path is a directory; a
\* creation between the exists() of line 46 and mkdir ends in success with a
\* directory in place or in CantCreateDestFolder; a creation between the
\* exists() of line 44 and that of line 46 ends in WrongDestinationPath.
C8_Thm ==
    /\ pc \notin PrepPcs \cup {"raised"} => outKind = "dir"
    /\ (raced = "L53" /\ pc \notin PrepPcs) =>
         IF pc = "raised" THEN escaped = "CantCreateDestFolder" ELSE outKind = "dir"
    /\ (raced = "L46" /\ pc # "L46") =>
         pc = "raised" /\ escaped = "WrongDestinationPath"

C8_Wit ==
    /\ raced = "L53"
    /\ pc = "L57"
    /\ outKind = "dir"
    /\ ~parentWritable

\* C9: a failure of the transformer on a line drops that line only: the loop
\* goes on, no line-level exception leaves process_one_file, and the output
\* holds exactly the results of the non-failing lines read so far, in order.
C9_Thm ==
    /\ pc = "L79" =>
         outDir[fn].data =
           Expected(SubSeq(inDir[fn].data, 1, Len(inDir[fn].data) - Len(stream_in)))
    /\ \A k \in 1..Len(outcome) :
         /\ outcome[k] \notin {"AssertionError", "SkipLineError"}
         /\ outcome[k] = "ok" => outDir[calls[k]] = File(Expected(inDir[calls[k]].data))
    /\ (last.line # <<>> /\ last.exc # "none") =>
         last.next = "L79" /\ last.after = last.before

C9_Wit ==
    \E k \in 1..Len(outcome) :
        /\ outcome[k] = "ok"
        /\ inDir[calls[k]].data = ScenarioLine2 \o GoodLine
        /\ outDir[calls[k]].data = <<"channel", "/", "42", "\n", "\n">>

\* C10 as stated: every WrongDestinationPath, CantCreateDestFile included,
\* aborts the run: after process_one_file raised CantCreateDestFile no later
\* input file is processed.
C10_Orig ==
    \A k \in 1..Len(outcome) :
        IsInstance(outcome[k], "WrongDestinationPath") => Len(calls) <= k

\* C10 amended: WrongDestinationPath and CantCreateDestFolder raised by the
\* output preparation abort the run before any file is processed, and nothing
\* else leaves process_files; CantCreateDestFile raised by process_one_file
\* skips that file only, the files after it are still processed.
C10_Thm ==
    /\ escaped # "none" =>
         /\ pc = "raised"
         /\ escaped \in {"WrongDestinationPath", "CantCreateDestFolder"}
         /\ calls = <<>>
    /\ \A k \in 1..Len(outcome) :
         outcome[k] = "CantCreateDestFile" =>
           /\ pc # "raised"
           /\ pc = "done" => Len(calls) = Len(files)
           /\ outDir[calls[k]] = Dir

C10_Wit ==
    /\ pc = "done"
    /\ overwrite
    /\ outcome = <<"CantCreateDestFile", "ok">>
    /\ Len(calls) = 2

====
